---- MODULE Spec2Model ----
(***************************************************************************)
(* Model of the iterator!() comprehension macro of iteratorcomprehensions  *)
(* (src/src/iteratorcomprehensions/lib.rs).                                *)
(*                                                                         *)
(* Two phases:                                                             *)
(*   1. macro expansion: iterator! hands the clause list to                *)
(*      iterator_tail!, whose five arms rewrite (head, envs, rest) one     *)
(*      clause at a time into a chain of adaptor calls                     *)
(*      gen.filter(..).flat_map(..).filter(..)...map(..);                  *)
(*   2. evaluation: the chain is constructed and then pulled by the        *)
(*      caller; every adaptor's next() is followed call by call.           *)
(***************************************************************************)
EXTENDS Integers, Sequences, FiniteSets, TLC

\* ---------------------------------------------------------------- bounds
\* Longest generic clause list.
MaxClauses == 3
\* Largest generic range(0, MaxRange).
MaxRange == 2
\* Most "if" filters written after one generic clause.
MaxFilters == 2
\* Elements drawn from one never-ending generator before the run is cut.
MaxInfDraw == 3
\* Longest generic clause list of the runs that follow never-ending generators.
LiveClauses == 2

\* ------------------------------------------------- constants of the tests
\* iterator6_test: six clauses, each over range(0, 5).
SixClauses == 6
SixRange == 5

\* Binder names, in clause order (the names iterator6_test uses).
Vars == <<"i", "j", "k", "l", "m", "n">>

\* ------------------------------------------------------------ expressions
\* A generator expression.
\*   "seq"    a fixed finite sequence (range(a, b), vec.iter())
\*   "upto"   range(0, ref + off), ref an outer binder
\*   "repeat" Repeat::new(elems[1]), which never ends
NoGen == [kind |-> "none", elems |-> <<>>, ref |-> "", off |-> 0]
\* A filter expression over binders a and b.
NoPred == [kind |-> "none", a |-> "", b |-> ""]
\* A map expression over the binders args.
NoMap == [kind |-> "none", args |-> <<>>]

Range0(n) == [x \in 1..n |-> x - 1]

SeqGen(s) == [kind |-> "seq", elems |-> s, ref |-> "", off |-> 0]
UptoGen(r, o) == [kind |-> "upto", elems |-> <<>>, ref |-> r, off |-> o]
RepeatGen(x) == [kind |-> "repeat", elems |-> <<x>>, ref |-> "", off |-> 0]

\* The elements a generator expression yields under the bindings b, and
\* whether it ever ends.
GenElems(g, b) ==
  CASE g.kind = "seq" -> g.elems
    [] g.kind = "upto" -> IF b[g.ref] + g.off > 0 THEN Range0(b[g.ref] + g.off) ELSE <<>>
    [] OTHER -> g.elems

GenInf(g) == g.kind = "repeat"

\* A filter expression evaluated under the bindings b.
PredEval(p, b) ==
  CASE p.kind = "odd" -> b[p.a] % 2 = 1
    [] p.kind = "sumeven" -> (b[p.a] + b[p.b]) % 2 = 0
    [] OTHER -> TRUE

RECURSIVE Product(_)
Product(s) == IF s = <<>> THEN 1 ELSE Head(s) * Product(Tail(s))

\* A map expression evaluated under the bindings b; results are sequences.
MapEval(m, b) ==
  CASE m.kind = "tuple" -> [x \in 1..Len(m.args) |-> b[m.args[x]]]
    [] m.kind = "prod" -> <<Product([x \in 1..Len(m.args) |-> b[m.args[x]]])>>
    [] m.kind = "double" -> <<b[m.args[1]] * 2>>
    [] OTHER -> <<>>

\* ----------------------------------------------------- patterns and values
\* A pattern (or tuple expression) is its token sequence; a value is the
\* shape of its nesting and its components from left to right.
Punct == {"(", ",", ")"}
IsIdent(t) == t \notin Punct
Leaves(pat) == SelectSeq(pat, IsIdent)
Shape(pat) == [x \in 1..Len(pat) |-> IF pat[x] \in Punct THEN pat[x] ELSE "_"]

Unit == [shape |-> <<>>, leaves |-> <<>>]
Scalar(x) == [shape |-> <<"_">>, leaves |-> <<x>>]
None == [some |-> FALSE, v |-> Unit]
Some(v) == [some |-> TRUE, v |-> v]

\* arglist!(i) -> i ; arglist!(i, j, ...) -> (arglist!(j, ...), i)
RECURSIVE arglist(_)
arglist(vars) ==
  IF Len(vars) = 1 THEN <<vars[1]>>
  ELSE <<"(">> \o arglist(Tail(vars)) \o <<",", vars[1], ")">>

\* Destructuring a value by a closure's parameter pattern.
Bind(pat, v) ==
  LET names == Leaves(pat)
  IN  [nm \in {names[x] : x \in 1..Len(names)} |->
         v.leaves[CHOOSE x \in 1..Len(names) : names[x] = nm]]

\* A tuple expression built from bound names.
EvalTuple(expr, b) ==
  [shape |-> Shape(expr),
   leaves |-> [x \in 1..Len(Leaves(expr)) |-> b[Leaves(expr)[x]]]]

\* Faulty variant: the zip written the other way round, gen.zip(Repeat::new(env)).
ZipPairSwapped(envv, x) ==
  [shape |-> <<"(", "_", ",">> \o envv.shape \o <<")">>,
   leaves |-> <<x>> \o envv.leaves]

\* One element of Repeat::new(env).zip(gen): the pair (env, x).
ZipPair(envv, x) ==
  [shape |-> <<"(">> \o envv.shape \o <<",", "_", ")">>,
   leaves |-> Append(envv.leaves, x)]

\* ------------------------------------------------------------ clause lists
\* One "for var in gen (if filter)*" clause.
Clause(v, g, fs) == [var |-> v, gen |-> g, filters |-> fs]

OddPred(v) == [kind |-> "odd", a |-> v, b |-> ""]
SumEvenPred(v, w) == [kind |-> "sumeven", a |-> v, b |-> w]
TupleMap(n) == [kind |-> "tuple", args |-> SubSeq(Vars, 1, n)]
ProdMap(n) == [kind |-> "prod", args |-> SubSeq(Vars, 1, n)]

\* The generators a generic clause k may use: the full range, and for nested
\* clauses ranges that depend on outer binders (range(0, v) is empty for
\* v = 0). With inf, also a generator that never ends.
GenChoices(k, inf) ==
  {SeqGen(Range0(MaxRange))}
    \cup (IF k > 1 THEN {UptoGen(Vars[k - 1], 0), UptoGen(Vars[1], 1)} ELSE {})
    \cup (IF inf THEN {RepeatGen(1)} ELSE {})

PredChoices(k) ==
  {OddPred(Vars[k])} \cup (IF k > 1 THEN {SumEvenPred(Vars[k - 1], Vars[k])} ELSE {})

\* No filter, one filter, or MaxFilters filters written one after another.
FilterChoices(k) ==
  {<<>>} \cup {<<p>> : p \in PredChoices(k)}
         \cup (IF MaxFilters > 1 THEN {[x \in 1..MaxFilters |-> OddPred(Vars[k])]} ELSE {})

RECURSIVE ClauseLists(_, _)
ClauseLists(n, inf) ==
  IF n = 0 THEN {<<>>}
  ELSE {Append(l, Clause(Vars[n], g, fs)) :
          l \in ClauseLists(n - 1, inf), g \in GenChoices(n, inf), fs \in FilterChoices(n)}

Invocation(m, cl, c) == [map |-> m, clauses |-> cl, consumer |-> c]

GenericInvocations ==
  UNION {{Invocation(TupleMap(n), cl, "collect") : cl \in ClauseLists(n, FALSE)} :
           n \in 1..MaxClauses}

\* The unit tests of lib.rs, as invocations.
Iterator1FilterMapTest ==
  Invocation([kind |-> "double", args |-> <<"i">>],
             <<Clause("i", SeqGen(<<0, 1, 2>>), <<OddPred("i")>>)>>, "collect")
Iterator2MapTest ==
  Invocation(ProdMap(2),
             <<Clause("i", SeqGen(<<1, 2>>), <<>>), Clause("j", SeqGen(<<2, 3>>), <<>>)>>,
             "collect")
Iterator2ExampleTest ==
  Invocation(TupleMap(2),
             <<Clause("i", SeqGen(<<0, 1, 2>>), <<>>),
               Clause("j", UptoGen("i", 1), <<SumEvenPred("i", "j")>>)>>, "collect")
Iterator3MapTest ==
  Invocation(ProdMap(3),
             <<Clause("i", SeqGen(<<1, 2>>), <<>>), Clause("j", SeqGen(<<3, 5>>), <<>>),
               Clause("k", SeqGen(<<7, 11>>), <<>>)>>, "collect")
Iterator3EmptyTest ==
  Invocation(ProdMap(3),
             <<Clause("i", SeqGen(<<0, 1>>), <<>>), Clause("j", UptoGen("i", 0), <<>>),
               Clause("k", SeqGen(<<0>>), <<>>)>>, "collect")
Iterator6Test ==
  Invocation(TupleMap(SixClauses),
             [x \in 1..SixClauses |-> Clause(Vars[x], SeqGen(Range0(SixRange)), <<>>)],
             "next_next_last")

\* examples/simple.rs: an empty outer range, and an empty innermost range.
SimpleEmptyOuter ==
  Invocation(TupleMap(2),
             <<Clause("i", SeqGen(<<>>), <<>>), Clause("j", SeqGen(<<0>>), <<>>)>>,
             "collect")
SimpleEmptyInner ==
  Invocation(TupleMap(3),
             <<Clause("i", SeqGen(<<0, 1, 2>>), <<>>), Clause("j", SeqGen(<<0, 1, 2>>), <<>>),
               Clause("k", SeqGen(<<>>), <<>>)>>, "collect")

TestInvocations ==
  {Iterator1FilterMapTest, Iterator2MapTest, Iterator2ExampleTest, Iterator3MapTest,
   Iterator3EmptyTest, Iterator6Test, SimpleEmptyOuter, SimpleEmptyInner}

\* ------------------------------------------------------------------ state
VARIABLES
  clauses,   \* the clause list handed to iterator!()
  mapx,      \* the map expression handed to iterator!()
  consumer,  \* how the caller consumes the result: collect(), or next/next/last
  phase,     \* "iterator", "tail", "expanded", "built", "error"
  head,      \* iterator_tail!'s first argument: the chain built so far
  envs,      \* iterator_tail!'s second argument: binders, newest first
  rest,      \* iterator_tail!'s third argument: the clauses still to expand
  its,       \* per adaptor of the chain: its generator or frontiter
  pc,        \* the adaptor whose next() is running
  mode,      \* "off", "idle", "call", "ret", "done", "panic"
  val,       \* the Option travelling back up the chain
  out,       \* what the caller has recorded
  acc,       \* last()'s running value
  calls,     \* per clause: how often its generator expression was evaluated
  drawn,     \* per clause: how many elements its generators have yielded
  trace      \* what the chain did during the current pull

vars == <<clauses, mapx, consumer, phase, head, envs, rest, its, pc, mode, val, out,
          acc, calls, drawn, trace>>

macroVars == <<phase, head, envs, rest>>
inputVars == <<clauses, mapx, consumer>>
runVars == <<its, pc, mode, val, out, acc, calls, drawn, trace>>

\* ------------------------------------------------------------- the adaptors
\* One adaptor of the chain. k is the clause it was expanded from.
Stage(op, k, pat, rep, g, p, m) ==
  [op |-> op, k |-> k, pat |-> pat, rep |-> rep, gen |-> g, pred |-> p, map |-> m]

\* $gen
GenStage(c) == Stage("gen", 1, <<>>, <<>>, c.gen, NoPred, NoMap)
\* .filter(|&$var| { $filter })
FirstFilterStage(c) == Stage("filter", 1, <<c.var>>, <<>>, NoGen, c.filters[1], NoMap)
\* .flat_map(|arglist!(envs)| { Repeat::new(arglist!(envs)).zip($gen) })
FlatMapStage(e, c) ==
  Stage("flat_map", Len(e) + 1, arglist(e), arglist(e), c.gen, NoPred, NoMap)
\* .filter(|&arglist!($var, envs)| { $filter })
NestedFilterStage(e, c) ==
  Stage("filter", Len(e) + 1, arglist(<<c.var>> \o e), <<>>, NoGen, c.filters[1], NoMap)
\* .map(|arglist!(envs)| { $map })
MapStage(e, m) == Stage("map", Len(e), arglist(e), <<>>, NoGen, NoPred, m)

\* What follows "for $var in $gen:expr" in a clause an arm accepts: arms 1
\* and 3 want the next "for" or the end, arms 2 and 4 want "if $filter:expr"
\* and then the next "for" or the end.
MatchesPlain(c) == Len(c.filters) = 0
MatchesFiltered(c) == Len(c.filters) = 1

\* Faulty variants: an arm that forgets the clause's filter.
Arm2HeadNoFilter(c) == <<GenStage(c)>>
Arm4HeadNoFilter(h, e, c) == Append(h, FlatMapStage(e, c))

\* What each arm of iterator_tail! passes on as the new head.
Arm1Head(c) == <<GenStage(c)>>
Arm2Head(c) == <<GenStage(c), FirstFilterStage(c)>>
Arm3Head(h, e, c) == Append(h, FlatMapStage(e, c))
Arm4Head(h, e, c) == h \o <<FlatMapStage(e, c), NestedFilterStage(e, c)>>
Arm5Head(h, e, m) == Append(h, MapStage(e, m))

\* ---------------------------------------------------------- macro expansion
InitWith(S) ==
  /\ \E inv \in S :
       /\ clauses = inv.clauses
       /\ mapx = inv.map
       /\ consumer = inv.consumer
  /\ phase = "iterator"
  /\ head = <<>> /\ envs = <<>> /\ rest = <<>>
  /\ its = <<>> /\ pc = 0 /\ mode = "off" /\ val = None
  /\ out = <<>> /\ acc = None
  /\ calls = [k \in 1..Len(clauses) |-> 0]
  /\ drawn = [k \in 1..Len(clauses) |-> 0]
  /\ trace = <<>>

Init == InitWith(GenericInvocations \cup TestInvocations)

\* iterator!(map clauses) => iterator_tail!((), (), (map clauses))
IteratorMacro ==
  /\ phase = "iterator"
  /\ Len(clauses) >= 1
  /\ phase' = "tail"
  /\ head' = <<>> /\ envs' = <<>> /\ rest' = clauses
  /\ UNCHANGED <<inputVars, runVars>>

\* Arm 1: first clause, no filter.
TailFirst ==
  /\ phase = "tail" /\ head = <<>> /\ envs = <<>>
  /\ rest # <<>> /\ MatchesPlain(Head(rest))
  /\ head' = Arm1Head(Head(rest))
  /\ envs' = <<Head(rest).var>>
  /\ rest' = Tail(rest)
  /\ UNCHANGED <<phase, inputVars, runVars>>

\* Arm 2: first clause with one filter.
TailFirstFilter ==
  /\ phase = "tail" /\ head = <<>> /\ envs = <<>>
  /\ rest # <<>> /\ MatchesFiltered(Head(rest))
  /\ head' = Arm2Head(Head(rest))
  /\ envs' = <<Head(rest).var>>
  /\ rest' = Tail(rest)
  /\ UNCHANGED <<phase, inputVars, runVars>>

\* Arm 3: nested clause, no filter.
TailNested ==
  /\ phase = "tail" /\ head # <<>> /\ envs # <<>>
  /\ rest # <<>> /\ MatchesPlain(Head(rest))
  /\ head' = Arm3Head(head, envs, Head(rest))
  /\ envs' = <<Head(rest).var>> \o envs
  /\ rest' = Tail(rest)
  /\ UNCHANGED <<phase, inputVars, runVars>>

\* Arm 4: nested clause with one filter.
TailNestedFilter ==
  /\ phase = "tail" /\ head # <<>> /\ envs # <<>>
  /\ rest # <<>> /\ MatchesFiltered(Head(rest))
  /\ head' = Arm4Head(head, envs, Head(rest))
  /\ envs' = <<Head(rest).var>> \o envs
  /\ rest' = Tail(rest)
  /\ UNCHANGED <<phase, inputVars, runVars>>

\* Arm 5: no clause left, the map closes the chain.
TailMap ==
  /\ phase = "tail" /\ head # <<>> /\ envs # <<>>
  /\ rest = <<>>
  /\ head' = Arm5Head(head, envs, mapx)
  /\ phase' = "expanded"
  /\ UNCHANGED <<envs, rest, inputVars, runVars>>

\* No arm takes a clause followed by two or more filters: after "if $filter"
\* arms 2 and 4 expect "for" or the end of the list.
NoRulesExpected ==
  /\ phase = "tail"
  /\ rest # <<>> /\ ~MatchesPlain(Head(rest)) /\ ~MatchesFiltered(Head(rest))
  /\ phase' = "error"
  /\ UNCHANGED <<head, envs, rest, inputVars, runVars>>

\* ------------------------------------------------------------ construction
\* The shape of the values adaptor s of chain h yields.
RECURSIVE OutShape(_, _)
OutShape(h, s) ==
  CASE h[s].op = "gen" -> <<"_">>
    [] h[s].op = "filter" -> OutShape(h, s - 1)
    [] h[s].op = "flat_map" -> <<"(">> \o Shape(h[s].rep) \o <<",", "_", ")">>
    [] OTHER -> <<"out">>

Names(pat) == {Leaves(pat)[x] : x \in 1..Len(Leaves(pat))}

\* rustc accepts the expanded chain: every closure's parameter pattern has
\* the shape of the values it is given, and every name an expression uses is
\* bound by the closure around it.
WellTyped(h) ==
  /\ h[1].gen.ref = ""
  /\ \A s \in 2..Len(h) :
       /\ Shape(h[s].pat) = OutShape(h, s - 1)
       /\ h[s].op = "flat_map" => h[s].gen.ref \in Names(h[s].pat) \cup {""}
       /\ h[s].op = "filter" => {h[s].pred.a, h[s].pred.b} \subseteq Names(h[s].pat) \cup {""}
       /\ h[s].op = "map" => \A x \in 1..Len(h[s].map.args) : h[s].map.args[x] \in Names(h[s].pat)

NoIter == [some |-> FALSE, env |-> Unit, rem |-> <<>>, inf |-> FALSE]
Iter(envv, g, b) == [some |-> TRUE, env |-> envv, rem |-> GenElems(g, b), inf |-> GenInf(g)]

Ev(e, k, envl) == [e |-> e, k |-> k, env |-> envl]

\* Evaluating the expanded expression builds the adaptors around the first
\* generator; the closures are stored, not run.
Construct ==
  /\ phase = "expanded"
  /\ IF WellTyped(head)
       THEN /\ phase' = "built"
            /\ its' = [s \in 1..Len(head) |->
                         IF s = 1 THEN Iter(Unit, head[1].gen, <<>>) ELSE NoIter]
            /\ calls' = [calls EXCEPT ![1] = 1]
            /\ mode' = "idle"
       ELSE /\ phase' = "error"
            /\ UNCHANGED <<its, calls, mode>>
  /\ UNCHANGED <<head, envs, rest, inputVars, pc, val, out, acc, drawn, trace>>

\* ------------------------------------------------------------- evaluation
Running(op, m) ==
  /\ phase = "built" /\ mode = m
  /\ pc \in 1..Len(head) /\ head[pc].op = op

\* A generator that never ends is followed for MaxInfDraw elements only.
MayDraw(it, k) == it.inf => drawn[k] < MaxInfDraw

\* The caller asks the result iterator for its next element.
Pull ==
  /\ phase = "built" /\ mode = "idle"
  /\ pc' = Len(head) /\ mode' = "call"
  /\ trace' = <<>>
  /\ UNCHANGED <<macroVars, inputVars, its, val, out, acc, calls, drawn>>

\* The first generator's next().
SourceNext ==
  /\ Running("gen", "call")
  /\ MayDraw(its[pc], 1)
  /\ IF its[pc].rem = <<>>
       THEN /\ val' = None
            /\ trace' = Append(trace, Ev("end", 1, <<>>))
            /\ UNCHANGED <<its, drawn>>
       ELSE /\ val' = Some(Scalar(Head(its[pc].rem)))
            /\ its' = [its EXCEPT ![pc].rem = IF its[pc].inf THEN @ ELSE Tail(@)]
            /\ drawn' = [drawn EXCEPT ![1] = @ + 1]
            /\ trace' = Append(trace, Ev("draw", 1, <<Head(its[pc].rem)>>))
  /\ pc' = pc + 1 /\ mode' = "ret"
  /\ UNCHANGED <<macroVars, inputVars, out, acc, calls>>

\* Faulty variant: the filter closure ignores its predicate.
FilterKeepsAll(st, v) == TRUE

\* Whether a filter adaptor's closure keeps the value v.
FilterKeeps(st, v) == PredEval(st.pred, Bind(st.pat, v))

\* Filter::next(): ask upstream.
FilterCall ==
  /\ Running("filter", "call")
  /\ pc' = pc - 1
  /\ trace' = Append(trace, Ev("next", head[pc].k, <<>>))
  /\ UNCHANGED <<macroVars, inputVars, its, mode, val, out, acc, calls, drawn>>

\* Filter::next(): upstream answered; yield it, or skip it and ask again.
FilterRet ==
  /\ Running("filter", "ret")
  /\ IF ~val.some
       THEN /\ pc' = pc + 1
            /\ UNCHANGED <<mode, val, trace>>
       ELSE IF FilterKeeps(head[pc], val.v)
         THEN /\ pc' = pc + 1
              /\ trace' = Append(trace, Ev("pass", head[pc].k, val.v.leaves))
              /\ UNCHANGED <<mode, val>>
         ELSE /\ pc' = pc - 1 /\ mode' = "call" /\ val' = None
              /\ trace' = Append(trace, Ev("fail", head[pc].k, val.v.leaves))
  /\ UNCHANGED <<macroVars, inputVars, its, out, acc, calls, drawn>>

\* Faulty variant: the generator is evaluated as for the outer values 0, whatever
\* the outer tuple is (a generator cached from the first tuple).
FlatMapInnerCached(st, v) ==
  LET b == Bind(st.pat, v)
  IN  Iter(EvalTuple(st.rep, b), st.gen, [nm \in DOMAIN b |-> 0])

\* The inner iterator the flat_map closure returns for the outer value v:
\* Repeat::new(arglist!(envs)).zip($gen), under |arglist!(envs)|.
FlatMapInner(st, v) ==
  LET b == Bind(st.pat, v) IN Iter(EvalTuple(st.rep, b), st.gen, b)

\* Faulty variant: the inner iterator is taken for exhausted one element early.
FlatMapStepEarlyRefill(it, m, v) ==
  IF m = "call"
    THEN (IF it.some /\ Len(it.rem) > 1 THEN "yield" ELSE "upstream")
    ELSE (IF v.some THEN "closure" ELSE "end")

\* Faulty variant: an exhausted inner iterator ends the whole iteration.
FlatMapStepEndsAtInnerEnd(it, m, v) ==
  IF m = "call"
    THEN (IF ~it.some THEN "upstream" ELSE IF it.rem # <<>> THEN "yield" ELSE "end")
    ELSE (IF v.some THEN "closure" ELSE "end")

\* FlatMap::next() is a loop: yield from the inner iterator while it has
\* elements; otherwise ask upstream, and either run the closure on the outer
\* value it answers or, when it answers None, report the end.
FlatMapStep(it, m, v) ==
  IF m = "call"
    THEN (IF it.some /\ it.rem # <<>> THEN "yield" ELSE "upstream")
    ELSE (IF v.some THEN "closure" ELSE "end")

\* FlatMap::next(), entered or gone round once more.
FlatMapCall ==
  /\ Running("flat_map", "call")
  /\ LET it == its[pc]
         k == head[pc].k
         step == FlatMapStep(it, "call", val)
     IN  CASE step = "yield" ->
                /\ MayDraw(it, k)
                /\ val' = Some(ZipPair(it.env, Head(it.rem)))
                /\ its' = [its EXCEPT ![pc].rem = IF it.inf THEN @ ELSE Tail(@)]
                /\ drawn' = [drawn EXCEPT ![k] = @ + 1]
                /\ trace' = Append(trace, Ev("draw", k, Append(it.env.leaves, Head(it.rem))))
                /\ pc' = pc + 1 /\ mode' = "ret"
           [] step = "upstream" ->
                /\ pc' = pc - 1
                /\ trace' = IF it.some THEN Append(trace, Ev("end", k, it.env.leaves))
                                       ELSE trace
                /\ UNCHANGED <<its, drawn, val, mode>>
           [] OTHER ->
                /\ pc' = pc + 1 /\ mode' = "ret" /\ val' = None
                /\ UNCHANGED <<its, drawn, trace>>
  /\ UNCHANGED <<macroVars, inputVars, out, acc, calls>>

\* FlatMap::next(), upstream has answered.
FlatMapRet ==
  /\ Running("flat_map", "ret")
  /\ IF FlatMapStep(its[pc], "ret", val) = "closure"
       THEN /\ its' = [its EXCEPT ![pc] = FlatMapInner(head[pc], val.v)]
            /\ calls' = [calls EXCEPT ![head[pc].k] = @ + 1]
            /\ trace' = Append(trace, Ev("gen", head[pc].k, val.v.leaves))
            /\ mode' = "call" /\ val' = None
            /\ UNCHANGED pc
       ELSE /\ pc' = pc + 1 /\ val' = None
            /\ UNCHANGED <<its, calls, trace, mode>>
  /\ UNCHANGED <<macroVars, inputVars, out, acc, drawn>>

\* Map::next(): ask upstream.
MapCall ==
  /\ Running("map", "call")
  /\ pc' = pc - 1
  /\ UNCHANGED <<macroVars, inputVars, its, mode, val, out, acc, calls, drawn, trace>>

\* The result of the map closure for the fully bound value v.
MapResult(st, v) == [shape |-> <<"out">>, leaves |-> MapEval(st.map, Bind(st.pat, v))]

\* Map::next(): apply the closure to what upstream answered.
MapRet ==
  /\ Running("map", "ret")
  /\ IF val.some
       THEN /\ val' = Some(MapResult(head[pc], val.v))
            /\ trace' = Append(trace, Ev("map", head[pc].k, val.v.leaves))
       ELSE UNCHANGED <<val, trace>>
  /\ pc' = pc + 1
  /\ UNCHANGED <<macroVars, inputVars, its, mode, out, acc, calls, drawn>>

\* ---------------------------------------------------------------- callers
Returned ==
  /\ phase = "built" /\ mode = "ret" /\ pc = Len(head) + 1

\* collect(): push every element, stop at the first None.
CollectRecv ==
  /\ Returned /\ consumer = "collect"
  /\ IF val.some
       THEN out' = Append(out, val.v.leaves) /\ mode' = "idle"
       ELSE out' = out /\ mode' = "done"
  /\ pc' = 0 /\ val' = None
  /\ UNCHANGED <<macroVars, inputVars, its, acc, calls, drawn, trace>>

\* iterator6_test: xs.next().unwrap(), twice.
NextUnwrapRecv ==
  /\ Returned /\ consumer = "next_next_last" /\ Len(out) < 2
  /\ IF val.some
       THEN out' = Append(out, val.v.leaves) /\ mode' = "idle"
       ELSE out' = out /\ mode' = "panic"
  /\ pc' = 0 /\ val' = None
  /\ UNCHANGED <<macroVars, inputVars, its, acc, calls, drawn, trace>>

\* iterator6_test: xs.last().unwrap() keeps the newest element until None.
LastRecv ==
  /\ Returned /\ consumer = "next_next_last" /\ Len(out) >= 2
  /\ IF val.some
       THEN /\ acc' = val /\ mode' = "idle"
            /\ out' = out
       ELSE /\ acc' = acc
            /\ IF acc.some
                 THEN out' = Append(out, acc.v.leaves) /\ mode' = "done"
                 ELSE out' = out /\ mode' = "panic"
  /\ pc' = 0 /\ val' = None
  /\ UNCHANGED <<macroVars, inputVars, its, calls, drawn, trace>>

Next ==
  \/ IteratorMacro
  \/ TailFirst
  \/ TailFirstFilter
  \/ TailNested
  \/ TailNestedFilter
  \/ TailMap
  \/ NoRulesExpected
  \/ Construct
  \/ Pull
  \/ SourceNext
  \/ FilterCall
  \/ FilterRet
  \/ FlatMapCall
  \/ FlatMapRet
  \/ MapCall
  \/ MapRet
  \/ CollectRecv
  \/ NextUnwrapRecv
  \/ LastRecv

Spec == Init /\ [][Next]_vars

\* ------------------------------------------------- the reference nested loop
\* for v_1 in g_1: if p_1: for v_2 in g_2(v_1): if p_2: ... emit (v_1..v_n)
\* Binders are looked up by clause position; no pattern is involved.
RefBind(cl, lv) ==
  [nm \in {cl[x].var : x \in 1..Len(lv)} |->
     lv[CHOOSE x \in 1..Len(lv) : cl[x].var = nm]]

AllPass(fs, b) == \A x \in 1..Len(fs) : PredEval(fs[x], b)

RECURSIVE RefFrom(_, _, _), RefOver(_, _, _, _)
RefFrom(cl, k, lv) ==
  IF k > Len(cl) THEN <<lv>>
  ELSE RefOver(cl, k, lv, GenElems(cl[k].gen, RefBind(cl, lv)))
RefOver(cl, k, lv, xs) ==
  IF xs = <<>> THEN <<>>
  ELSE (IF AllPass(cl[k].filters, RefBind(cl, Append(lv, Head(xs))))
          THEN RefFrom(cl, k + 1, Append(lv, Head(xs)))
          ELSE <<>>)
       \o RefOver(cl, k, lv, Tail(xs))

\* The binder tuples the nested loop reaches, and what it emits.
RefTuples(cl) == RefFrom(cl, 1, <<>>)
Reference(cl, m) ==
  LET r == RefTuples(cl) IN [x \in 1..Len(r) |-> MapEval(m, RefBind(cl, r[x]))]
\* The environment tuples E_k that pass the predicates of clauses 1..k.
Survivors(cl, k) == RefTuples(SubSeq(cl, 1, k))

IsPrefix(s, t) == Len(s) <= Len(t) /\ s = SubSeq(t, 1, Len(s))
AtMostOneFilter(cl) == \A x \in 1..Len(cl) : Len(cl[x].filters) <= 1
Collected == phase = "built" /\ consumer = "collect" /\ mode = "done"

\* ------------------------------------------------------------------ claims

\* C1: for every clause list whose clauses carry at most one predicate the
\* expansion is accepted, and what collect() has gathered after full
\* consumption is exactly the sequence the reference nested loop emits; the
\* predicate runs on the bound values before the map: [0,3) odd, doubled,
\* gives [2], and i in [0,3), j in [0,i+1), (i+j)%2==0 gives
\* (0,0),(1,1),(2,0),(2,2).
C1_NestedLoopEquivalence ==
  /\ AtMostOneFilter(clauses) => phase # "error"
  /\ Collected => out = Reference(clauses, mapx)
  /\ (Collected /\ clauses = Iterator1FilterMapTest.clauses /\ mapx.kind = "double") =>
       out = << <<2>> >>
  /\ (Collected /\ clauses = Iterator2ExampleTest.clauses) =>
       out = << <<0, 0>>, <<1, 1>>, <<2, 0>>, <<2, 2>> >>

\* A three-clause comprehension with a dependent generator and a filter on a
\* nested clause has been consumed to the end and yielded several elements.
C1_Witness ==
  /\ Collected
  /\ Len(clauses) = 3
  /\ clauses[2].gen.kind = "upto" /\ Len(clauses[2].filters) = 1
  /\ clauses[3].gen.kind = "upto"
  /\ Len(out) >= 2

LexLess(a, b) ==
  \E x \in 1..Len(a) : a[x] < b[x] /\ \A y \in 1..(x - 1) : a[y] = b[y]

Zeros(n) == [x \in 1..n |-> 0]
SixTest == clauses = Iterator6Test.clauses /\ consumer = "next_next_last"

\* C2: the binder tuples come out in strict lexicographic order, the outer
\* binder slowest: of any two tuples collect() has gathered the earlier one is
\* lexicographically smaller, and so is every tuple last() drops against the
\* one that replaces it; the six-clause comprehension over [0,5) yields
\* (0,0,0,0,0,0) first, (0,0,0,0,0,1) second and (4,4,4,4,4,4) last.
C2_LexicographicOrder ==
  /\ (phase = "built" /\ consumer = "collect" /\ mapx.kind = "tuple") =>
       \A x, y \in 1..Len(out) : x < y => LexLess(out[x], out[y])
  /\ (Returned /\ consumer = "next_next_last" /\ val.some) =>
       /\ acc.some => LexLess(acc.v.leaves, val.v.leaves)
       /\ (~acc.some /\ out # <<>>) => LexLess(out[Len(out)], val.v.leaves)
  /\ SixTest =>
       /\ Len(out) >= 1 => out[1] = Zeros(SixClauses)
       /\ Len(out) >= 2 => out[2] = [Zeros(SixClauses) EXCEPT ![SixClauses] = 1]
       /\ mode = "done" =>
            /\ Len(out) = 3
            /\ out[3] = [x \in 1..SixClauses |-> SixRange - 1]
       /\ mode # "panic"

\* iterator6_test has run to the end of last().
C2_Witness == SixTest /\ mode = "done" /\ Len(out) = 3

\* The events of the current pull that belong to a clause deeper than the
\* first: each carries the environment tuple it worked on.
DeepEvents == {x \in 1..Len(trace) : trace[x].k >= 2 /\ trace[x].e \in {"gen", "draw", "pass", "fail"}}

\* The outer tuple E_j inside the environment of an event.
OuterOf(ev, j) == SubSeq(ev.env, 1, j)

\* C3: whatever the chain does for a clause deeper than k (evaluating its
\* generator, drawing from it, testing its predicate), it does for an
\* environment whose tuple E_k passed the predicate of clause k; so the
\* generator of clause k+1 is never invoked for a tuple E_k that failed (for
\* the first clause as for nested ones).
C3_FilterBeforeFlatten ==
  phase = "built" =>
    \A x \in DeepEvents : \A j \in 1..(trace[x].k - 1) :
       AllPass(clauses[j].filters, RefBind(clauses, OuterOf(trace[x], j)))

\* During one pull a first-clause value failed its predicate, a nested-clause
\* tuple failed its predicate too, and generators of deeper clauses were
\* evaluated for other tuples.
C3_Witness ==
  /\ phase = "built" /\ Len(clauses) = 3
  /\ \E x, y, z, w \in 1..Len(trace) :
       /\ trace[x].e = "fail" /\ trace[x].k = 1
       /\ trace[y].e = "gen" /\ trace[y].k = 2
       /\ trace[z].e = "fail" /\ trace[z].k = 2
       /\ trace[w].e = "gen" /\ trace[w].k = 3

\* ---- what one pull did, read off the trace
Last(sq) == sq[Len(sq)]
IsTest(ev) == ev.e \in {"pass", "fail"}
\* A tuple E_k from which the nested loop reaches no output.
Barren(ev) ==
  \/ ~AllPass(clauses[ev.k].filters, RefBind(clauses, ev.env))
  \/ RefFrom(clauses, ev.k + 1, ev.env) = <<>>
\* Event x is the first evaluation ever of its clause's generator.
FirstCall(x) ==
  calls[trace[x].k] =
    Cardinality({z \in x..Len(trace) : trace[z].e = "gen" /\ trace[z].k = trace[x].k})
\* Before event x the previous inner iterator of that clause reported its end
\* and has yielded nothing since.
EndedBefore(x) ==
  \E y \in 1..(x - 1) :
     /\ trace[y].e = "end" /\ trace[y].k = trace[x].k
     /\ \A z \in (y + 1)..(x - 1) : ~(trace[z].e = "draw" /\ trace[z].k = trace[x].k)

\* C4: evaluation is lazy. Until the first pull only the first generator
\* expression has been evaluated and nothing has been drawn. A pull that
\* yields an element draws, besides the components of that element, only
\* candidates from which the nested loop reaches no output, and it draws
\* nothing after the element's last component; a pull that reports the end
\* draws only such barren candidates. The generator for the next outer tuple
\* is evaluated only after the current inner iterator has reported its end.
\* After two pulls on the six-clause [0,5) comprehension every generator has
\* yielded one element, the innermost two.
C4_Lazy ==
  /\ phase # "built" =>
       \A k \in 1..Len(clauses) : calls[k] = 0 /\ drawn[k] = 0
  /\ (phase = "built" /\ mode = "idle" /\ out = <<>>) =>
       \A k \in 1..Len(clauses) : calls[k] = (IF k = 1 THEN 1 ELSE 0) /\ drawn[k] = 0
  /\ (phase = "built" /\ mode = "idle" /\ out # <<>>) =>
       /\ Last(trace).e = "map"
       /\ \E x \in 1..Len(trace) :
            /\ trace[x].e = "draw" /\ trace[x].env = Last(trace).env
            /\ \A y \in (x + 1)..Len(trace) : trace[y].e \in {"pass", "map"}
       /\ \A x \in 1..Len(trace) : trace[x].e = "draw" =>
            IsPrefix(trace[x].env, Last(trace).env) \/ Barren(trace[x])
       /\ \A x, y \in 1..Len(trace) :
            (x < y /\ trace[x].e = "draw" /\ trace[y].e = "draw"
               /\ IsPrefix(trace[x].env, Last(trace).env)
               /\ IsPrefix(trace[y].env, Last(trace).env)) => trace[x].k < trace[y].k
  /\ (phase = "built" /\ mode = "done") =>
       \A x \in 1..Len(trace) : trace[x].e = "draw" => Barren(trace[x])
  /\ phase = "built" =>
       \A x \in 1..Len(trace) : (trace[x].e = "gen" /\ ~FirstCall(x)) => EndedBefore(x)
  /\ (SixTest /\ mode = "idle" /\ Len(out) = 2 /\ ~acc.some) =>
       /\ drawn = [k \in 1..SixClauses |-> IF k = SixClauses THEN 2 ELSE 1]
       /\ calls = [k \in 1..SixClauses |-> 1]

\* Two elements have been pulled from the six-clause comprehension.
C4_Witness ==
  SixTest /\ mode = "idle" /\ Len(out) = 2 /\ ~acc.some /\ drawn[SixClauses] = 2

\* The elements collect() gathered whose binder tuple starts with E.
OutputsUnder(E) == LET Under(t) == IsPrefix(E, t) IN SelectSeq(out, Under)

\* C5: an outer tuple whose inner generator yields nothing contributes no
\* element and stops nothing: after full consumption the elements under every
\* surviving outer tuple E_(k-1), at every level k, are exactly those the
\* nested loop emits under it (none when its generator is empty), and the
\* caller never panics; i in [0,2), j in [0,i), k in [0,1) yields the single
\* element 0, and comprehensions whose every branch is empty yield nothing.
C5_EmptyBranches ==
  /\ consumer = "collect" => mode # "panic"
  /\ (Collected /\ mapx.kind = "tuple") =>
       \A k \in 1..Len(clauses) :
         LET surv == Survivors(clauses, k - 1)
         IN  \A x \in 1..Len(surv) :
               /\ OutputsUnder(surv[x]) = RefFrom(clauses, k, surv[x])
               /\ GenElems(clauses[k].gen, RefBind(clauses, surv[x])) = <<>> =>
                    OutputsUnder(surv[x]) = <<>>
  /\ (Collected /\ clauses = Iterator3EmptyTest.clauses /\ mapx.kind = "prod") =>
       out = << <<0>> >>
  /\ (Collected /\ clauses \in {SimpleEmptyOuter.clauses, SimpleEmptyInner.clauses}) =>
       out = <<>>

\* A three-clause comprehension has been consumed in which one outer tuple's
\* inner generator was empty and a later outer tuple still produced output.
C5_Witness ==
  /\ Collected /\ Len(clauses) = 3 /\ mapx.kind = "tuple"
  /\ clauses[2].gen = UptoGen("i", 0)
  /\ calls[2] >= 2 /\ out # <<>>

\* C8: the generator of every clause k >= 2 is evaluated afresh exactly once
\* per surviving tuple E_(k-1), in order: its j-th evaluation is for the j-th
\* such tuple, with the outer binders bound to that tuple's values, and after
\* full consumption it has been evaluated once for each of them; the first
\* generator is evaluated once.
C8_GeneratorOncePerSurvivor ==
  /\ (phase = "built" /\ consumer = "collect" /\ trace # <<>> /\ Last(trace).e = "gen") =>
       LET k == Last(trace).k
           surv == Survivors(clauses, k - 1)
       IN  /\ calls[k] <= Len(surv)
           /\ Last(trace).env = surv[calls[k]]
           /\ head[pc].op = "flat_map" /\ head[pc].k = k
           /\ its[pc].some
           /\ its[pc].env.leaves = surv[calls[k]]
           /\ its[pc].rem = GenElems(clauses[k].gen, RefBind(clauses, surv[calls[k]]))
  /\ Collected =>
       /\ calls[1] = 1
       /\ \A k \in 2..Len(clauses) : calls[k] = Len(Survivors(clauses, k - 1))

\* A three-clause comprehension with a filter on the second clause has been
\* consumed; the third generator, which depends on an outer binder, was
\* evaluated several times, but less often than the second yielded elements.
C8_Witness ==
  /\ Collected /\ Len(clauses) = 3
  /\ Len(clauses[2].filters) = 1
  /\ clauses[3].gen.kind = "upto"
  /\ calls[3] >= 2 /\ calls[3] < drawn[2]

\* The events of clause k's filter adaptor during the current pull.
NextBetween(k, x, y) ==
  \E z \in (x + 1)..(y - 1) : trace[z].e = "next" /\ trace[z].k = k
TestsOf(k) == {x \in 1..Len(trace) : IsTest(trace[x]) /\ trace[x].k = k}
DrawnEnvs(k) == LET D(ev) == ev.e = "draw" /\ ev.k = k IN SelectSeq(trace, D)
TestedEnvs(k) == LET T(ev) == IsTest(ev) /\ ev.k = k IN SelectSeq(trace, T)

\* C9 as stated: a call of a filter adaptor's next() pulls at most one
\* element from upstream.
C9_AtMostOneUpstreamPull ==
  phase = "built" =>
    \A k \in 1..Len(clauses) : \A x, y \in TestsOf(k) : x < y => NextBetween(k, x, y)

\* C9, amended: the filter adaptor yields exactly the upstream elements that
\* satisfy the predicate, in upstream order, and one call of its next() pulls
\* upstream elements until the first that satisfies the predicate: every
\* element it pulls before the one it yields failed the predicate, and it
\* pulls nothing after it.
C9_FilterSkipsToFirstPass ==
  phase = "built" =>
    /\ \A x \in 1..Len(trace) : IsTest(trace[x]) =>
         (trace[x].e = "pass"
            <=> AllPass(clauses[trace[x].k].filters, RefBind(clauses, trace[x].env)))
    /\ \A k \in 1..Len(clauses) : \A x, y \in TestsOf(k) :
         (x < y /\ ~NextBetween(k, x, y)) => trace[x].e = "fail"
    /\ \A k \in 1..Len(clauses) : clauses[k].filters # <<>> =>
         LET d == DrawnEnvs(k)
             t == TestedEnvs(k)
         IN  /\ Len(t) <= Len(d) /\ Len(d) <= Len(t) + 1
             /\ \A x \in 1..Len(t) : t[x].env = d[x].env
    /\ (mode = "ret" /\ pc >= 2 /\ pc <= Len(head) + 1 /\ val.some
          /\ head[pc - 1].op = "filter") =>
         /\ Last(trace).e = "pass"
         /\ Last(trace).env = val.v.leaves

\* Within one call of its next() a filter adaptor skipped an element and then
\* yielded the following one.
C9_Witness ==
  /\ phase = "built"
  /\ \E x, y \in 1..Len(trace) :
       /\ x < y /\ trace[x].k = trace[y].k /\ trace[x].k >= 2
       /\ trace[x].e = "fail" /\ trace[y].e = "pass"
       /\ ~NextBetween(trace[x].k, x, y)

\* ------------------------------------------------------------ termination
\* Generic comprehensions whose generators may be Repeat::new(1), which never
\* ends; one whose never-ending inner generator is never evaluated, because
\* the outer range is empty; and iterator6_test.
EmptyOuterRepeatInner ==
  Invocation(TupleMap(2),
             <<Clause("i", SeqGen(<<>>), <<>>), Clause("j", RepeatGen(1), <<>>)>>,
             "collect")

FairInvocations ==
  UNION {{Invocation(TupleMap(n), cl, "collect") : cl \in ClauseLists(n, TRUE)} :
           n \in 1..LiveClauses}
    \cup {EmptyOuterRepeatInner, Iterator6Test}

FairInit == InitWith(FairInvocations)

\* The caller's loop (collect(), last()) keeps pulling and every adaptor's
\* next() is straight-line code: a step that can be taken is taken.
FairSpec == FairInit /\ [][Next]_vars /\ WF_vars(Next)

\* A generator that never ends has been evaluated and sits in the chain.
InfLive ==
  /\ phase = "built"
  /\ \E s \in 1..Len(head) : its[s].some /\ head[s].gen.kind = "repeat"

Exhausted == \A s \in 1..Len(head) : its[s].some => its[s].rem = <<>>

\* C7: the result iterator is finite exactly when every generator that gets
\* evaluated is finite. Once a never-ending generator sits in the chain the
\* end is never reported; otherwise every pull returns and the caller is
\* eventually told the end; and the end is reported only when no generator in
\* the chain has an element left.
C7_FiniteIffGeneratorsFinite ==
  /\ [](InfLive => mode # "done")
  /\ []((phase = "built" /\ mode = "done") => Exhausted)
  /\ []((Returned /\ ~val.some) => Exhausted)
  /\ (phase = "built" /\ mode = "call") ~> (mode \in {"idle", "done", "panic"} \/ InfLive)
  /\ (phase = "built") ~> (mode \in {"done", "panic"} \/ InfLive)

\* A two-clause comprehension over finite generators, one of them dependent,
\* has yielded elements and then reported its end.
C7_Witness ==
  /\ Collected /\ Len(clauses) = 2
  /\ clauses[2].gen.kind = "upto"
  /\ Len(out) >= 2 /\ Exhausted

\* C6 as stated: a clause may carry any number of predicates, and a tuple
\* survives a level exactly when all of the clause's predicates pass: every
\* clause list is expanded, and the elements collected are those of the
\* nested loop that takes the conjunction of each clause's predicates.
C6_SeveralPredicatesAnd ==
  /\ phase # "error"
  /\ Collected => out = Reference(clauses, mapx)

\* The nesting the comment above arglist! documents:
\* arglist(i) -> i, arglist(i, j) -> (j, i), arglist(i, j, k) -> (k, (j, i)).
DocArglist(ids) ==
  CASE Len(ids) = 1 -> <<ids[1]>>
    [] Len(ids) = 2 -> <<"(", ids[2], ",", ids[1], ")">>
    [] OTHER -> <<"(", ids[3], ",", "(", ids[2], ",", ids[1], ")", ")">>

\* C10 as stated: arglist! nests one, two and three identifiers as its
\* comment documents, and the pattern of every closure has the shape of the
\* values the closure is given, its x-th component being the binder of
\* clause x, so that every binder is bound to the value drawn from its own
\* clause's generator.
C10_ArglistDocumentedNesting ==
  /\ (phase = "tail" /\ envs # <<>> /\ Len(envs) <= 3) =>
       arglist(envs) = DocArglist(envs)
  /\ phase \in {"expanded", "built"} =>
       \A s \in 2..Len(head) :
          /\ Shape(head[s].pat) = OutShape(head, s - 1)
          /\ Leaves(head[s].pat) = [x \in 1..Len(Leaves(head[s].pat)) |-> clauses[x].var]

====
